---------------------------- MODULE Spec2Model ----------------------------
(***************************************************************************)
(* A model of tiny_ldt (src/tiny_ldt.hpp): the EULUMDAT reader load_ldt,   *)
(* the writer write_ldt and the plane-range resolver calc_mc1_mc2.         *)
(*                                                                         *)
(* A file is a sequence of lines and a line is a sequence of one-character *)
(* strings, so that std::stoi / std::stof and operator<< are modelled by   *)
(* what they do to the characters.  A uint32_t is a pair <<hi, lo>> of     *)
(* 16-bit halves (value hi * 65536 + lo): the whole 32-bit range is kept   *)
(* and arithmetic wraps exactly where the C++ arithmetic wraps.            *)
(* A TINYLDT_FPN (float) is modelled by the integer it holds; the model    *)
(* feeds float lines only integer-valued texts of at most four digits,     *)
(* which float holds and operator<< prints exactly.                        *)
(***************************************************************************)
EXTENDS Integers, Sequences, FiniteSets, TLC

VARIABLES
    orig,     \* the pristine file the input of the last load was derived from
    stream,   \* the file given to the last load_ldt call
    res,      \* the caller's arguments after the last load_ldt call
    touched,  \* the caller edited res.ldt after the load
    disk,     \* the destination of write_ldt
    wres,     \* the last write_ldt call: its return value and what the
              \* file system did
    res2,     \* the arguments of the load_ldt call that reads the written file
    op        \* the operation that ran last

vars == <<orig, stream, res, touched, disk, wres, res2, op>>

---------------------------------------------------------------------------
(* Bounds of the model. *)

MaxPlanes == 4          \* plane counts 0..MaxPlanes in decoded files
MaxSamples == 1         \* sample counts 0..MaxSamples in decoded files
MaxLamps == 1           \* lamp-set counts 0..MaxLamps in decoded files
MaxResolverPlanes == 25 \* small plane counts given to the resolver alone

---------------------------------------------------------------------------
(* 32-bit unsigned arithmetic on 16-bit halves. *)

Half == 65536
MaxInt32 == 2147483647
MinInt32 == -2147483647 - 1

\* The uint32_t whose value is the natural number n (n <= MaxInt32).
U32(n) == <<n \div Half, n % Half>>

\* int -> uint32_t conversion (two's complement: negative i becomes i + 2^32).
ToUint32(i) ==
    IF i >= 0 THEN U32(i)
    ELSE LET j == (i + MaxInt32) + 1      \* i + 2^31, in 0 .. 2^31 - 1
         IN  <<(j \div Half) + 32768, j % Half>>

\* uint32_t -> size_t; the model only sizes containers below 2^31.
ToSize(u) == u[1] * Half + u[2]

\* The exact product k * u for a small literal k, as three 16-bit digits.
MulWide(k, u) ==
    LET p0 == k * u[2]
        p1 == k * u[1] + (p0 \div Half)
    IN  <<p1 \div Half, p1 % Half, p0 % Half>>

\* w \div d for a three-digit number w and a small literal d.
DivWide(w, d) ==
    LET r1 == w[1] % d
        t2 == r1 * Half + w[2]
        r2 == t2 % d
        t3 == r2 * Half + w[3]
    IN  <<w[1] \div d, t2 \div d, t3 \div d>>

\* a + b for three-digit numbers (no wrap below 2^48).
AddWide(a, b) ==
    LET s3 == a[3] + b[3]
        s2 == a[2] + b[2] + (s3 \div Half)
        s1 == a[1] + b[1] + (s2 \div Half)
    IN  <<s1 % Half, s2 % Half, s3 % Half>>

Wide(u) == <<0, u[1], u[2]>>

\* Conversion back to 32 bits drops the high digit: the wrap of uint32_t.
Trunc32(w) == <<w[2], w[3]>>

MulU32(k, u) == Trunc32(MulWide(k, u))
DivU32(u, d) == Trunc32(DivWide(Wide(u), d))
AddU32(a, b) == Trunc32(AddWide(Wide(a), Wide(b)))
RemU32(u, d) == ((u[1] % d) * Half + u[2]) % d

LeWide(a, b) ==
    \/ a[1] < b[1]
    \/ a[1] = b[1] /\ a[2] < b[2]
    \/ a[1] = b[1] /\ a[2] = b[2] /\ a[3] <= b[3]

LeU32(a, b) == LeWide(Wide(a), Wide(b))

---------------------------------------------------------------------------
(* Characters, std::stoi, std::stof and operator<<. *)

DigitChars == <<"0", "1", "2", "3", "4", "5", "6", "7", "8", "9">>

IsDigit(c) == \E i \in 1..10 : DigitChars[i] = c
DigitVal(c) == (CHOOSE i \in 1..10 : DigitChars[i] = c) - 1
IsSpace(c) == c = " "

RECURSIVE SkipSpace(_, _)
SkipSpace(line, i) ==
    IF i <= Len(line) /\ IsSpace(line[i]) THEN SkipSpace(line, i + 1) ELSE i

\* strtol's digit loop, accumulating the negated magnitude so that INT_MIN
\* is representable; over is set once the value leaves the range of int.
RECURSIVE ParseDigits(_, _, _)
ParseDigits(line, i, st) ==
    IF i > Len(line) \/ ~IsDigit(line[i]) THEN st
    ELSE LET d == DigitVal(line[i])
             over == \/ st.over
                     \/ st.acc < -214748364
                     \/ st.acc = -214748364 /\ d > 8
         IN  ParseDigits(line, i + 1,
                 [acc |-> IF over THEN 0 ELSE st.acc * 10 - d,
                  over |-> over, any |-> TRUE])

\* std::stoi(line): leading white space, an optional sign, decimal digits;
\* what follows the digits is ignored.  ok = FALSE models the exception
\* (invalid_argument without digits, out_of_range outside int).
stoi(line) ==
    LET i0 == SkipSpace(line, 1)
        neg == i0 <= Len(line) /\ line[i0] = "-"
        i1 == IF i0 <= Len(line) /\ line[i0] \in {"-", "+"} THEN i0 + 1 ELSE i0
        st == ParseDigits(line, i1, [acc |-> 0, over |-> FALSE, any |-> FALSE])
    IN  IF ~st.any \/ st.over \/ (~neg /\ st.acc = MinInt32)
        THEN [ok |-> FALSE, val |-> 0]
        ELSE [ok |-> TRUE, val |-> IF neg THEN st.acc ELSE -st.acc]


\* std::stof(line) on the texts of the model: leading white space, an
\* optional sign, decimal digits (no '.', exponent, inf or nan occurs in the
\* model's alphabet); what follows is ignored.  ok = FALSE models
\* invalid_argument.
stof(line) ==
    LET i0 == SkipSpace(line, 1)
        neg == i0 <= Len(line) /\ line[i0] = "-"
        i1 == IF i0 <= Len(line) /\ line[i0] \in {"-", "+"} THEN i0 + 1 ELSE i0
        st == ParseDigits(line, i1, [acc |-> 0, over |-> FALSE, any |-> FALSE])
    IN  IF ~st.any
        THEN [ok |-> FALSE, val |-> 0]
        ELSE [ok |-> TRUE, val |-> IF neg THEN st.acc ELSE -st.acc]

\* operator<<(uint32_t): the decimal digits, most significant first.
RECURSIVE StrU32(_)
StrU32(u) ==
    IF u[1] = 0 /\ u[2] < 10 THEN <<DigitChars[u[2] + 1]>>
    ELSE StrU32(DivU32(u, 10)) \o <<DigitChars[RemU32(u, 10) + 1]>>

\* operator<<(int): a minus sign and the digits of the magnitude.
StrInt(i) ==
    IF i >= 0 THEN StrU32(U32(i))
    ELSE <<"-">> \o StrU32(AddU32(U32(-(i + 1)), U32(1)))

\* operator<<(float) under ss.precision(9): an integer-valued float of at
\* most 9 digits prints as that integer, without point or exponent.
StrFpn(v) == StrInt(v)

---------------------------------------------------------------------------
(* struct light and struct lamp_data_s. *)

DirectRatios == 10

Zeros(n) == [i \in 1..n |-> 0]

DefaultLamp ==
    [number_of_lamps |-> 0, type_of_lamps |-> <<>>,
     total_luminous_flux |-> U32(0), color_temperature |-> U32(0),
     color_rendering_group |-> U32(0), watt |-> 0]

DefaultLight ==
    [manufacturer |-> <<>>, ltyp |-> U32(0), lsym |-> U32(0),
     mc |-> U32(0), mc1 |-> U32(0), mc2 |-> U32(0),
     dc |-> 0, ng |-> U32(0), dg |-> 0,
     measurement_report_number |-> <<>>, luminaire_name |-> <<>>,
     luminaire_number |-> <<>>, file_name |-> <<>>, date_user |-> <<>>,
     height_luminaire |-> U32(0), length_luminaire |-> U32(0),
     width_luminaire |-> U32(0),
     length_luminous_area |-> U32(0), width_luminous_area |-> U32(0),
     height_luminous_area_c0 |-> U32(0), height_luminous_area_c90 |-> U32(0),
     height_luminous_area_c180 |-> U32(0), height_luminous_area_c270 |-> U32(0),
     dff |-> 0, lorl |-> 0, conversion_factor |-> 0,
     tilt_of_luminaire |-> U32(0), n |-> U32(0),
     lamp_data |-> <<>>,
     dr |-> Zeros(DirectRatios),
     angles_c |-> <<>>, angles_g |-> <<>>,
     luminous_intensity_distribution |-> <<>>]

\* std::vector::resize(n) of a vector of value-initialised elements.
Resize(v, n, zero) == [i \in 1..n |-> IF i <= Len(v) THEN v[i] ELSE zero]

---------------------------------------------------------------------------
(* calc_mc1_mc2: the stored plane range from the symmetry code. *)

\* A seeded fault: case 2 stores mc + 1 as the last plane.
calc_mc1_mc2_offByOne(l) ==
    IF l.lsym = U32(0) THEN
        [l |-> [l EXCEPT !.mc1 = U32(1), !.mc2 = l.mc], failed |-> FALSE]
    ELSE IF l.lsym = U32(1) THEN
        [l |-> [l EXCEPT !.mc1 = U32(1), !.mc2 = U32(1)], failed |-> FALSE]
    ELSE IF l.lsym = U32(2) THEN
        [l |-> [l EXCEPT !.mc1 = U32(1), !.mc2 = AddU32(l.mc, U32(1))],
         failed |-> FALSE]
    ELSE IF l.lsym = U32(3) THEN
        LET mc1 == AddU32(DivU32(MulU32(3, l.mc), 4), U32(1))
        IN  [l |-> [l EXCEPT !.mc1 = mc1, !.mc2 = AddU32(mc1, DivU32(l.mc, 2))],
             failed |-> FALSE]
    ELSE IF l.lsym = U32(4) THEN
        [l |-> [l EXCEPT !.mc1 = U32(1),
                         !.mc2 = AddU32(DivU32(l.mc, 4), U32(1))],
         failed |-> FALSE]
    ELSE [l |-> l, failed |-> TRUE]

\* failed is the C++ return value: true when the symmetry code is unknown.
calc_mc1_mc2(l) ==
    IF l.lsym = U32(0) THEN
        [l |-> [l EXCEPT !.mc1 = U32(1), !.mc2 = l.mc], failed |-> FALSE]
    ELSE IF l.lsym = U32(1) THEN
        [l |-> [l EXCEPT !.mc1 = U32(1), !.mc2 = U32(1)], failed |-> FALSE]
    ELSE IF l.lsym = U32(2) THEN
        [l |-> [l EXCEPT !.mc1 = U32(1),
                         !.mc2 = AddU32(DivU32(l.mc, 2), U32(1))],
         failed |-> FALSE]
    ELSE IF l.lsym = U32(3) THEN
        LET mc1 == AddU32(DivU32(MulU32(3, l.mc), 4), U32(1))
        IN  [l |-> [l EXCEPT !.mc1 = mc1, !.mc2 = AddU32(mc1, DivU32(l.mc, 2))],
             failed |-> FALSE]
    ELSE IF l.lsym = U32(4) THEN
        [l |-> [l EXCEPT !.mc1 = U32(1),
                         !.mc2 = AddU32(DivU32(l.mc, 4), U32(1))],
         failed |-> FALSE]
    ELSE [l |-> l, failed |-> TRUE]

---------------------------------------------------------------------------
(* load_ldt. *)

FailedReading(filename) == "Failed reading file: " \o filename
ErrReading(name, filename) ==
    "Error reading <" \o name \o "> property: " \o filename
SymmetryError == "Error reading light symmetry"
SomeValues == "Some values could not be read"

\* Lines 1 to 26 in reading order: the name NEXT_LINE reports, the member
\* assigned, and the conversion applied ("str": none, "u32": std::stoi into
\* a uint32_t, "int": std::stoi into an int, "fpn": std::stof).
Header == <<
    [name |-> "Manufacturer", field |-> "manufacturer", kind |-> "str"],
    [name |-> "Type", field |-> "ltyp", kind |-> "u32"],
    [name |-> "Symmetry", field |-> "lsym", kind |-> "u32"],
    [name |-> "Mc", field |-> "mc", kind |-> "u32"],
    [name |-> "Dc", field |-> "dc", kind |-> "fpn"],
    [name |-> "Ng", field |-> "ng", kind |-> "u32"],
    [name |-> "Dg", field |-> "dg", kind |-> "fpn"],
    [name |-> "Measurement report number",
     field |-> "measurement_report_number", kind |-> "str"],
    [name |-> "Luminaire name", field |-> "luminaire_name", kind |-> "str"],
    [name |-> "Luminaire number", field |-> "luminaire_number", kind |-> "str"],
    [name |-> "File name", field |-> "file_name", kind |-> "str"],
    [name |-> "Date/user", field |-> "date_user", kind |-> "str"],
    [name |-> "Length/diameter of luminaire",
     field |-> "length_luminaire", kind |-> "u32"],
    [name |-> "Width of luminaire", field |-> "width_luminaire", kind |-> "u32"],
    [name |-> "Height of luminaire", field |-> "height_luminaire", kind |-> "u32"],
    [name |-> "Length/diameter of luminous area",
     field |-> "length_luminous_area", kind |-> "u32"],
    [name |-> "Width of luminous area",
     field |-> "width_luminous_area", kind |-> "u32"],
    [name |-> "Height of luminous area C0-plane",
     field |-> "height_luminous_area_c0", kind |-> "u32"],
    [name |-> "Height of luminous area C90-plane",
     field |-> "height_luminous_area_c90", kind |-> "u32"],
    [name |-> "Height of luminous area C180-plane",
     field |-> "height_luminous_area_c180", kind |-> "u32"],
    [name |-> "Height of luminous area C270-plane",
     field |-> "height_luminous_area_c270", kind |-> "u32"],
    [name |-> "Downward flux fraction", field |-> "dff", kind |-> "fpn"],
    [name |-> "Light output ratio luminaire", field |-> "lorl", kind |-> "fpn"],
    [name |-> "Conversion factor for luminous intensities",
     field |-> "conversion_factor", kind |-> "fpn"],
    [name |-> "Tilt of luminaire during measurement",
     field |-> "tilt_of_luminaire", kind |-> "u32"],
    [name |-> "Number of standard sets of lamps", field |-> "n", kind |-> "u32"] >>

\* Lines 26a to 26f: one block of lamp_data.size() lines per member.
LampBlocks == <<
    [name |-> "Number of lamps", field |-> "number_of_lamps", kind |-> "int"],
    [name |-> "Type of lamps", field |-> "type_of_lamps", kind |-> "str"],
    [name |-> "Total luminous flux",
     field |-> "total_luminous_flux", kind |-> "u32"],
    [name |-> "Color appearance", field |-> "color_temperature", kind |-> "u32"],
    [name |-> "Color rendering group",
     field |-> "color_rendering_group", kind |-> "u32"],
    [name |-> "Wattage including ballast", field |-> "watt", kind |-> "fpn"] >>

\* The right-hand side of an assignment: ok = FALSE when it throws.
Convert(kind, line) ==
    CASE kind = "str" -> [ok |-> TRUE, val |-> line]
      [] kind = "u32" -> LET r == stoi(line)
                         IN  [ok |-> r.ok, val |-> ToUint32(r.val)]
      [] kind = "int" -> stoi(line)
      [] kind = "fpn" -> stof(line)

\* A seeded fault: a missing line is reported but reading goes on.
NEXT_LINE_noReturn(s, f, name) ==
    IF s.pos < Len(f.lines)
    THEN [s EXCEPT !.pos = @ + 1, !.line = f.lines[s.pos + 1]]
    ELSE [s EXCEPT !.err = ErrReading(name, f.name), !.line = <<>>]

\* NEXT_LINE(name): std::getline, or the error message and return false.
NEXT_LINE(s, f, name) ==
    IF s.pos < Len(f.lines)
    THEN [s EXCEPT !.pos = @ + 1, !.line = f.lines[s.pos + 1]]
    ELSE [s EXCEPT !.err = ErrReading(name, f.name),
                   !.returned = TRUE, !.ret = FALSE]

\* A seeded fault: a failed conversion leaves no warning behind.
CATCH_silent(s, c, ldt) ==
    IF c.ok THEN [s EXCEPT !.ldt = ldt]
    ELSE [s EXCEPT !.caught = @ + 1]

\* CATCH(a): the assignment, or the warning when the conversion throws.
CATCH(s, c, ldt) ==
    IF c.ok THEN [s EXCEPT !.ldt = ldt]
    ELSE [s EXCEPT !.warn = SomeValues, !.caught = @ + 1]

\* One of the lines 1 to 26.
ReadScalar(s, f, d) ==
    IF s.returned THEN s
    ELSE LET t == NEXT_LINE(s, f, d.name)
             c == Convert(d.kind, t.line)
         IN  IF t.returned THEN t
             ELSE CATCH(t, c, [t.ldt EXCEPT ![d.field] = c.val])

RECURSIVE ReadScalars(_, _, _, _)
ReadScalars(s, f, i, last) ==
    IF i > last THEN s
    ELSE LET t == ReadScalar(s, f, Header[i])
         IN  IF t.returned THEN t ELSE ReadScalars(t, f, i + 1, last)

\* for (lamp_data_s& ld : lamp_data) { NEXT_LINE(name) CATCH(ld.field = ...) }
RECURSIVE ReadLampBlock(_, _, _, _)
ReadLampBlock(s, f, d, i) ==
    IF s.returned \/ i > Len(s.ldt.lamp_data) THEN s
    ELSE LET t == NEXT_LINE(s, f, d.name)
             c == Convert(d.kind, t.line)
         IN  IF t.returned THEN t
             ELSE ReadLampBlock(
                      CATCH(t, c, [t.ldt EXCEPT !.lamp_data[i][d.field] = c.val]),
                      f, d, i + 1)

RECURSIVE ReadLampBlocks(_, _, _)
ReadLampBlocks(s, f, b) ==
    IF b > Len(LampBlocks) THEN s
    ELSE ReadLampBlocks(ReadLampBlock(s, f, LampBlocks[b], 1), f, b + 1)

\* for (TINYLDT_FPN& v : array) { NEXT_LINE(name) CATCH(v = stof(line)) }
RECURSIVE ReadArray(_, _, _, _, _)
ReadArray(s, f, name, field, i) ==
    IF s.returned \/ i > Len(s.ldt[field]) THEN s
    ELSE LET t == NEXT_LINE(s, f, name)
             c == Convert("fpn", t.line)
         IN  IF t.returned THEN t
             ELSE ReadArray(CATCH(t, c, [t.ldt EXCEPT ![field][i] = c.val]),
                            f, name, field, i + 1)

\* A seeded fault: one stored plane too few.
LidSize_short(l) == (ToSize(l.mc2) - ToSize(l.mc1)) * ToSize(l.ng)

\* (size_t(mc2) - size_t(mc1) + 1) * size_t(ng)
LidSize(l) == (ToSize(l.mc2) - ToSize(l.mc1) + 1) * ToSize(l.ng)

\* The reader's locals and output arguments on entry, after ldt_out = {}.
Reader(err_in, warn_in) ==
    [ldt |-> DefaultLight, err |-> err_in, warn |-> warn_in,
     pos |-> 0, line |-> <<>>, returned |-> FALSE, ret |-> TRUE, caught |-> 0]

\* if (calc_mc1_mc2(ldt_out)) { err_out = ...; return false; }
Resolve(s) ==
    IF s.returned THEN s
    ELSE LET c == calc_mc1_mc2(s.ldt)
         IN  IF c.failed
             THEN [s EXCEPT !.err = SymmetryError,
                            !.returned = TRUE, !.ret = FALSE]
             ELSE [s EXCEPT !.ldt = c.l]

\* ldt_out.lamp_data.resize(ldt_out.n)
ResizeLamps(s) ==
    IF s.returned THEN s
    ELSE [s EXCEPT !.ldt.lamp_data = Resize(@, ToSize(s.ldt.n), DefaultLamp)]

\* ldt_out.angles_c.resize(ldt_out.mc)
ResizeAnglesC(s) ==
    IF s.returned THEN s
    ELSE [s EXCEPT !.ldt.angles_c = Resize(@, ToSize(s.ldt.mc), 0)]

\* ldt_out.angles_g.resize(ldt_out.ng)
ResizeAnglesG(s) ==
    IF s.returned THEN s
    ELSE [s EXCEPT !.ldt.angles_g = Resize(@, ToSize(s.ldt.ng), 0)]

\* ldt_out.luminous_intensity_distribution.resize((mc2 - mc1 + 1) * ng)
ResizeLid(s) ==
    IF s.returned THEN s
    ELSE [s EXCEPT !.ldt.luminous_intensity_distribution =
                       Resize(@, LidSize(s.ldt), 0)]

\* The statements of load_ldt after ldt_out = {}, in order; each is skipped
\* once the function has returned.
ReadAll(s, f) ==
    ReadArray(ResizeLid(
      ReadArray(ResizeAnglesG(
        ReadArray(ResizeAnglesC(
          ReadArray(
            ReadLampBlocks(ResizeLamps(
              ReadScalars(Resolve(ReadScalars(s, f, 1, 4)), f, 5, 26)), f, 1),
            f, "Direct ratios for room indices k = 0.6 ... 5", "dr", 1)),
          f, "Angles C", "angles_c", 1)),
        f, "Angles G", "angles_g", 1)),
      f, "Luminous intensity distribution",
      "luminous_intensity_distribution", 1)

\* The values the caller sees when load_ldt returns.  consumed counts the
\* lines std::getline delivered and caught the conversions that threw.
Returned(s) ==
    [ret |-> s.ret, err |-> s.err, warn |-> s.warn,
     ldt |-> s.ldt, consumed |-> s.pos, caught |-> s.caught]

\* load_ldt(f.name, err_out, warn_out, ldt_out) on the file f, with the
\* values the three output arguments hold on entry.
load_ldt(f, err_in, warn_in, ldt_in) ==
    IF ~f.exists
    THEN [ret |-> FALSE, err |-> FailedReading(f.name), warn |-> warn_in,
          ldt |-> ldt_in, consumed |-> 0, caught |-> 0]
    ELSE Returned(ReadAll(Reader(err_in, warn_in), f))

---------------------------------------------------------------------------
(* write_ldt. *)

\* operator<< by the declared type of the member.
Str(kind, v) ==
    CASE kind = "str" -> v
      [] kind = "u32" -> StrU32(v)
      [] kind = "int" -> StrInt(v)
      [] kind = "fpn" -> StrFpn(v)

\* Lines 1 to 26 in writing order, with the declared type of each member.
WriteHeader == <<
    [field |-> "manufacturer", kind |-> "str"],
    [field |-> "ltyp", kind |-> "u32"],
    [field |-> "lsym", kind |-> "u32"],
    [field |-> "mc", kind |-> "u32"],
    [field |-> "dc", kind |-> "fpn"],
    [field |-> "ng", kind |-> "u32"],
    [field |-> "dg", kind |-> "fpn"],
    [field |-> "measurement_report_number", kind |-> "str"],
    [field |-> "luminaire_name", kind |-> "str"],
    [field |-> "luminaire_number", kind |-> "str"],
    [field |-> "file_name", kind |-> "str"],
    [field |-> "date_user", kind |-> "str"],
    [field |-> "length_luminaire", kind |-> "u32"],
    [field |-> "width_luminaire", kind |-> "u32"],
    [field |-> "height_luminaire", kind |-> "u32"],
    [field |-> "length_luminous_area", kind |-> "u32"],
    [field |-> "width_luminous_area", kind |-> "u32"],
    [field |-> "height_luminous_area_c0", kind |-> "u32"],
    [field |-> "height_luminous_area_c90", kind |-> "u32"],
    [field |-> "height_luminous_area_c180", kind |-> "u32"],
    [field |-> "height_luminous_area_c270", kind |-> "u32"],
    [field |-> "dff", kind |-> "fpn"],
    [field |-> "lorl", kind |-> "fpn"],
    [field |-> "conversion_factor", kind |-> "fpn"],
    [field |-> "tilt_of_luminaire", kind |-> "u32"],
    [field |-> "n", kind |-> "u32"] >>

\* Lines 26a to 26f in writing order.
WriteLampBlocks == <<
    [field |-> "number_of_lamps", kind |-> "int"],
    [field |-> "type_of_lamps", kind |-> "str"],
    [field |-> "total_luminous_flux", kind |-> "u32"],
    [field |-> "color_temperature", kind |-> "u32"],
    [field |-> "color_rendering_group", kind |-> "u32"],
    [field |-> "watt", kind |-> "fpn"] >>

WriteScalars(ldt) ==
    [i \in 1..Len(WriteHeader) |->
        Str(WriteHeader[i].kind, ldt[WriteHeader[i].field])]

\* for (const lamp_data_s& ld : ldt.lamp_data) ss << ld.field << std::endl;
WriteLampBlock(ldt, d) ==
    [i \in 1..Len(ldt.lamp_data) |-> Str(d.kind, ldt.lamp_data[i][d.field])]

RECURSIVE WriteLamps(_, _)
WriteLamps(ldt, b) ==
    IF b > Len(WriteLampBlocks) THEN <<>>
    ELSE WriteLampBlock(ldt, WriteLampBlocks[b]) \o WriteLamps(ldt, b + 1)

\* A seeded fault: the array written back to front.
WriteArray_reversed(a) == [i \in 1..Len(a) |-> StrFpn(a[Len(a) + 1 - i])]

\* for (const TINYLDT_FPN& v : array) ss << v << std::endl;
WriteArray(a) == [i \in 1..Len(a) |-> StrFpn(a[i])]

\* The text assembled in the string stream, one line per std::endl.
Serialize(ldt) ==
    WriteScalars(ldt) \o WriteLamps(ldt, 1) \o WriteArray(ldt.dr)
        \o WriteArray(ldt.angles_c) \o WriteArray(ldt.angles_g)
        \o WriteArray(ldt.luminous_intensity_distribution)

\* The characters of the text: each line and its std::endl.
RECURSIVE TextSize(_)
TextSize(lines) ==
    IF lines = <<>> THEN 0 ELSE Len(Head(lines)) + 1 + TextSize(Tail(lines))

\* The lines std::getline finds in the first room characters of the text:
\* the whole lines that fit and the part of the next line that fits.
RECURSIVE Stored(_, _)
Stored(lines, room) ==
    IF lines = <<>> \/ room <= 0 THEN <<>>
    ELSE IF room <= Len(Head(lines))
    THEN << SubSeq(Head(lines), 1, room) >>
    ELSE << Head(lines) >>
             \o Stored(Tail(lines), room - Len(Head(lines)) - 1)

\* write_ldt(dest.name, ldt) on the destination dest.  io is what the
\* file system does: opens is whether std::ofstream opens the destination,
\* room the number of characters it takes before writes fail (a file-size
\* limit, a full disk).  is_open() is the only test: the state of the
\* stream after file << ss.rdbuf() is never looked at, so the call returns
\* true with only the characters that fitted stored.  A regular file is
\* created or truncated by the open; any other destination keeps what it
\* holds.
write_ldt(dest, ldt, io) ==
    IF ~io.opens THEN [ret |-> FALSE, file |-> dest]
    ELSE IF dest.regular
    THEN [ret |-> TRUE,
          file |-> [dest EXCEPT !.exists = TRUE,
                                !.lines = Stored(Serialize(ldt), io.room)]]
    ELSE [ret |-> TRUE, file |-> dest]

---------------------------------------------------------------------------
(* The files the callers of the model decode. *)

InName == "in.ldt"
OutName == "out.ldt"

\* A regular file, and the name of a file that does not exist.
File(name, lines) ==
    [name |-> name, exists |-> TRUE, lines |-> lines, regular |-> TRUE]
Missing(name) ==
    [name |-> name, exists |-> FALSE, lines |-> <<>>, regular |-> TRUE]

\* A destination that opens for writing and stores nothing of what is
\* written to it.
SpecialName == "/proc/version"
Special ==
    [name |-> SpecialName, exists |-> TRUE, lines |-> << <<"v">> >>,
     regular |-> FALSE]

\* Stored planes of a well-formed file, by the format's symmetry table.
StoredPlanes(sym, mc) ==
    CASE sym = 0 -> mc
      [] sym = 1 -> 1
      [] sym = 2 -> (mc \div 2) + 1
      [] sym = 3 -> (mc \div 2) + 1
      [] sym = 4 -> (mc \div 4) + 1
      [] OTHER -> mc

\* Number of lines of a well-formed file with these counts.
FileLength(sym, mc, ng, n) ==
    26 + 6 * n + DirectRatios + mc + ng + StoredPlanes(sym, mc) * ng

\* Line i of a file with symmetry text symText and the counts mc, ng, n:
\* every line holds a text of its own, so that a shifted read shows.
BaseLine(i, symText, sym, mc, ng, n) ==
    LET a == 26 + 6 * n
        b == a + DirectRatios
        c == b + mc
        d == c + ng
    IN  IF i <= 26 THEN
            CASE i = 3 -> symText
              [] i = 4 -> StrInt(mc)
              [] i = 6 -> StrInt(ng)
              [] i = 26 -> StrInt(n)
              [] Header[i].kind = "str" /\ i # 3 -> <<"t">> \o StrInt(i)
              [] OTHER -> StrInt(10 + i)
        ELSE IF i <= a THEN
            LET blk == ((i - 27) \div n) + 1
                k == ((i - 27) % n) + 1
            IN  CASE blk = 1 -> StrInt(-(110 + k))
                  [] blk = 2 -> <<"l">> \o StrInt(k)
                  [] OTHER -> StrInt(100 + 10 * blk + k)
        ELSE IF i <= b THEN StrInt(200 + (i - a))
        ELSE IF i <= c THEN StrInt(300 + (i - b))
        ELSE IF i <= d THEN StrInt(400 + (i - c))
        ELSE StrInt(500 + (i - d))

BaseFile(symText, sym, mc, ng, n) ==
    File(InName, [i \in 1..FileLength(sym, mc, ng, n) |->
                     BaseLine(i, symText, sym, mc, ng, n)])

\* The well-formed files: symmetry 0..4, every count in its range, every
\* numeric line a number of its field's type, exactly the lines needed.
ValidFiles ==
    { BaseFile(StrInt(sym), sym, mc, ng, n) :
        sym \in 0..4, mc \in 0..MaxPlanes, ng \in 0..MaxSamples,
        n \in 0..MaxLamps }

\* Symmetry lines std::stoi converts to a value outside 0..4.
BadSymTexts == { <<"5">>, <<"-", "1">>, <<"9", "x">>, <<" ", "7">> }

\* A symmetry line holding an integer that does not fit an int.
HugeText == <<"3", "0", "0", "0", "0", "0", "0", "0", "0", "0">>

BadSymFiles ==
    { BaseFile(t, 0, mc, MaxSamples, MaxLamps) :
        t \in BadSymTexts \cup {HugeText}, mc \in {0, MaxPlanes} }

\* The kind of line i in a file whose counts are those of the Record l.
LineKind(l, i) ==
    LET n == Len(l.lamp_data)
    IN  IF i <= 26 THEN Header[i].kind
        ELSE IF i <= 26 + 6 * n THEN LampBlocks[((i - 27) \div n) + 1].kind
        ELSE "fpn"

\* Texts put in place of one line: not a number, a number with a tail, a
\* negative number, a number beyond int.
NotNumeric == { <<"x">>, <<>>, <<"-">> }
PutTexts == NotNumeric \cup { <<"7", "x">>, <<"-", "3">>, HugeText }

Put(f, j, t) == [f EXCEPT !.lines[j] = t]
Cut(f, k) == [f EXCEPT !.lines = SubSeq(f.lines, 1, k)]

\* The integer lines that get every text that is no number: the type, the
\* four lines that size later sections, the tilt and the first lamp line.
ProbedLines == {2, 3, 4, 6, 25, 26, 27}

\* The lines that, where they are integer lines, also get a number with a
\* tail, a negative number and a number beyond int; the float lines that
\* get a text that is no number.
ConvertedLines == {2, 3, 27}
FloatLines == {5, 7, 22}

\* The one-line replacements tried on the well-formed file f: "x" on every
\* integer line, on three float lines of the header and on the last line.
Puts(f) ==
    LET l == load_ldt(f, "", "", DefaultLight).ldt
    IN  { p \in (1..Len(f.lines)) \X PutTexts :
            /\ LineKind(l, p[1]) # "str"
            /\ p[2] = <<"x">> =>
                  \/ LineKind(l, p[1]) # "fpn"
                  \/ p[1] \in FloatLines \cup {Len(f.lines)}
            /\ p[2] \in NotNumeric \ {<<"x">>} => p[1] \in ProbedLines
            /\ p[2] \notin NotNumeric =>
                  p[1] \in ConvertedLines /\ LineKind(l, p[1]) # "fpn" }

\* The files derived from the file f: f itself, its proper prefixes, and
\* (for a well-formed f) f with one line replaced.
Derived(f) ==
    {f} \cup { Cut(f, k) : k \in 0..(Len(f.lines) - 1) }
        \cup (IF f \in ValidFiles THEN { Put(f, p[1], p[2]) : p \in Puts(f) }
              ELSE {})

\* Edits a caller makes to a decoded Record before writing it.
Edits == {"count", "clear", "grow"}

Edit(l, e) ==
    CASE e = "count" -> [l EXCEPT !.n = AddU32(l.n, U32(1))]
      [] e = "clear" -> [l EXCEPT !.angles_c = <<>>, !.angles_g = <<>>,
                                  !.luminous_intensity_distribution = <<>>]
      [] e = "grow" -> [l EXCEPT !.luminous_intensity_distribution =
                                      Append(@, 9)]

---------------------------------------------------------------------------
(* The state machine: a caller that decodes a file into fresh arguments,   *)
(* may edit the Record, writes it and decodes what was written.            *)

NoResult ==
    [ret |-> FALSE, err |-> "", warn |-> "", ldt |-> DefaultLight,
     consumed |-> 0, caught |-> 0]

Init ==
    /\ orig = Missing(InName)
    /\ stream = Missing(InName)
    /\ res = NoResult
    /\ touched = FALSE
    /\ disk = Missing(OutName)
    /\ wres = [ret |-> FALSE, opens |-> FALSE, room |-> 0, regular |-> TRUE]
    /\ res2 = NoResult
    /\ op = "init"

\* load_ldt on a file derived from o, with empty strings and a fresh Record.
Load(o, f) ==
    /\ op = "init"
    /\ orig' = o
    /\ stream' = f
    /\ res' = load_ldt(f, "", "", DefaultLight)
    /\ op' = "load"
    /\ UNCHANGED <<touched, disk, wres, res2>>

\* load_ldt on a file that cannot be opened.
LoadMissing ==
    /\ op = "init"
    /\ orig' = Missing(InName)
    /\ stream' = Missing(InName)
    /\ res' = load_ldt(Missing(InName), "", "", DefaultLight)
    /\ op' = "load"
    /\ UNCHANGED <<touched, disk, wres, res2>>

\* The caller edits a cleanly decoded Record.
Touch(e) ==
    /\ op = "load"
    /\ res.ret /\ stream = orig
    /\ res' = [res EXCEPT !.ldt = Edit(res.ldt, e)]
    /\ touched' = TRUE
    /\ op' = "touch"
    /\ UNCHANGED <<orig, stream, disk, wres, res2>>

\* What the file system does to a write of the Record ldt: the destination
\* does not open; it takes the whole text; and, with faults, it takes
\* nothing, or the first half of the characters.
Outcomes(ldt, faults) ==
    { [opens |-> FALSE, room |-> 0],
      [opens |-> TRUE, room |-> TextSize(Serialize(ldt))] }
        \cup (IF faults
               THEN { [opens |-> TRUE, room |-> 0],
                      [opens |-> TRUE,
                       room |-> TextSize(Serialize(ldt)) \div 2] }
               ELSE {})

\* write_ldt on the decoded Record, to the file OutName.
Write(io) ==
    /\ op \in {"load", "touch"}
    /\ res.ret
    /\ LET w == write_ldt(disk, res.ldt, io)
       IN  /\ wres' = [ret |-> w.ret, opens |-> io.opens, room |-> io.room,
                       regular |-> disk.regular]
           /\ disk' = w.file
    /\ op' = "write"
    /\ UNCHANGED <<orig, stream, res, touched, res2>>

\* write_ldt on the decoded Record, to a destination that is no regular
\* file.
WriteSpecial ==
    /\ op \in {"load", "touch"}
    /\ res.ret
    /\ stream = orig
    /\ LET w == write_ldt(Special, res.ldt, [opens |-> TRUE, room |-> 0])
       IN  /\ wres' = [ret |-> w.ret, opens |-> TRUE, room |-> 0,
                       regular |-> FALSE]
           /\ disk' = w.file
    /\ op' = "write"
    /\ UNCHANGED <<orig, stream, res, touched, res2>>

\* load_ldt on the written file, with empty strings and a fresh Record.
Reload ==
    /\ op = "write"
    /\ wres.ret
    /\ res2' = load_ldt(disk, "", "", DefaultLight)
    /\ op' = "reload"
    /\ UNCHANGED <<orig, stream, res, touched, disk, wres>>

Next ==
    \/ \E o \in ValidFiles \cup BadSymFiles : \E f \in Derived(o) : Load(o, f)
    \/ LoadMissing
    \/ \E e \in Edits : Touch(e)
    \/ \E io \in Outcomes(res.ldt, stream = orig) : Write(io)
    \/ WriteSpecial
    \/ Reload

Spec == Init /\ [][Next]_vars

---------------------------------------------------------------------------
(* The resolver on its own: load_ldt on the first four lines of a file,    *)
(* with every symmetry code and plane count std::stoi can deliver.         *)

\* Plane counts where 3 * mc wraps, and the negative numbers that become
\* the largest uint32_t values.
WrapPlanes == {1431655765, 1431655766, MaxInt32, MinInt32, -1}

ResolverCodes == -1..5
ResolverPlanes == (0..MaxResolverPlanes) \cup WrapPlanes

HeadFile(code, planes) ==
    File(InName, << <<"t", "1">>, StrInt(12), StrInt(code), StrInt(planes) >>)

LoadHead(code, planes) ==
    /\ orig' = HeadFile(code, planes)
    /\ stream' = HeadFile(code, planes)
    /\ res' = load_ldt(HeadFile(code, planes), "", "", DefaultLight)
    /\ op' = "resolve"
    /\ UNCHANGED <<touched, disk, wres, res2>>

NextResolver ==
    \E code \in ResolverCodes : \E planes \in ResolverPlanes :
        LoadHead(code, planes)

SpecResolver == Init /\ [][NextResolver]_vars

---------------------------------------------------------------------------
(* A caller that passes the same two strings and the same Record to every  *)
(* load_ldt call.                                                          *)

ReuseBase == BaseFile(StrInt(2), 2, 2, 1, 1)

ReuseFiles ==
    { ReuseBase, BaseFile(StrInt(0), 0, 0, 0, 0),
      Put(ReuseBase, 2, <<"x">>), Put(ReuseBase, 13, <<"x">>),
      Put(ReuseBase, 25, <<"7", "x">>),
      BaseFile(<<"5">>, 0, 2, 1, 1), Missing(InName) }
        \cup { Cut(ReuseBase, k) : k \in {0, 1, 3, 5, 26, 30, 40} }

LoadAgain(f) ==
    /\ orig' = f
    /\ stream' = f
    /\ res' = load_ldt(f, res.err, res.warn, res.ldt)
    /\ op' = "load"
    /\ UNCHANGED <<touched, disk, wres, res2>>

NextReuse == \E f \in ReuseFiles : LoadAgain(f)

SpecReuse == Init /\ [][NextReuse]_vars

---------------------------------------------------------------------------
(* C1, C2: the resolver's table. *)

One == <<0, 0, 1>>

\* The table of the format in exact arithmetic (three 16-bit digits, no
\* wrap): the first and the last stored plane for a code 0..4.
TableLow(code, mc) ==
    IF code = 3 THEN AddWide(DivWide(MulWide(3, mc), 4), One) ELSE One

TableHigh(code, mc) ==
    CASE code = 0 -> Wide(mc)
      [] code = 1 -> One
      [] code = 2 -> AddWide(DivWide(Wide(mc), 2), One)
      [] code = 3 -> AddWide(TableLow(3, mc), DivWide(Wide(mc), 2))
      [] code = 4 -> AddWide(DivWide(Wide(mc), 4), One)

\* The resolver has run and accepted the symmetry code: the decode went on
\* to the next line.
Resolved ==
    /\ op = "resolve"
    /\ res.err = ErrReading("Dc", InName)

CodeIs(k) == res.ldt.lsym = U32(k)

\* C1: for every symmetry code 0..4 and every 32-bit plane count, the
\* resolver accepts the code and sets (mc1, mc2) to the table value
\* computed with truncating integer division.
C1_TableExact ==
    op = "resolve" =>
        \A k \in 0..4 :
            CodeIs(k) =>
                /\ Resolved
                /\ Wide(res.ldt.mc1) = TableLow(k, res.ldt.mc)
                /\ Wide(res.ldt.mc2) = TableHigh(k, res.ldt.mc)

\* C2 as stated: after the resolver has succeeded, planeLow <= planeHigh
\* and planeHigh <= planeCount, whatever the plane count.
C2_Original ==
    Resolved =>
        /\ LeU32(res.ldt.mc1, res.ldt.mc2)
        /\ LeU32(res.ldt.mc2, res.ldt.mc)

\* C2 as amended: planeLow <= planeHigh holds for the codes 1..4 and, for
\* code 0, when the plane count is at least 1; planeHigh <= planeCount
\* holds for code 0 and, for the codes 1, 2 and 4, when the plane count is
\* at least 1.  (For code 3 planeHigh exceeds planeCount: 24 gives 31.)
C2_Amended ==
    Resolved =>
        /\ (~CodeIs(0) \/ res.ldt.mc # U32(0))
              => LeU32(res.ldt.mc1, res.ldt.mc2)
        /\ (CodeIs(0) \/ ((CodeIs(1) \/ CodeIs(2) \/ CodeIs(4))
                            /\ res.ldt.mc # U32(0)))
              => LeU32(res.ldt.mc2, res.ldt.mc)

\* The resolver has run on code 2 and an odd plane count above 20.
C2_Witness ==
    /\ Resolved
    /\ CodeIs(2)
    /\ res.ldt.mc = U32(23)
    /\ res.ldt.mc2 = U32(12)

---------------------------------------------------------------------------
(* C3: an unknown symmetry code. *)

Decoded == op = "load" /\ stream.exists

\* The line is an integer literal: digits, with or without a minus sign.
IsInteger(line) ==
    LET digits == IF line # <<>> /\ line[1] = "-" THEN Tail(line) ELSE line
    IN  digits # <<>> /\ \A i \in 1..Len(digits) : IsDigit(digits[i])

\* Line 3 holds an integer outside 0..4: one std::stoi converts, or one
\* beyond the range of int.
SymmetryOutside(f) ==
    /\ Len(f.lines) >= 3
    /\ IsInteger(f.lines[3])
    /\ stoi(f.lines[3]).ok => stoi(f.lines[3]).val \notin 0..4

\* C3 as stated: a stream whose symmetry line holds an integer outside 0..4
\* always ends in the symmetry error, and no line after the symmetry line
\* is consumed.
C3_Original ==
    (Decoded /\ SymmetryOutside(stream)) =>
        /\ ~res.ret
        /\ res.err = SymmetryError
        /\ res.consumed <= 3

---------------------------------------------------------------------------
(* C4: truncated input. *)

\* The decode of the pristine file.
Ref == load_ldt(orig, "", "", DefaultLight)

\* The name NEXT_LINE reports for line i of a file laid out as the
\* Record l: 26 lines, six lamp blocks, ten ratios, the three arrays.
LineName(l, i) ==
    LET n == Len(l.lamp_data)
        b == 26 + 6 * n + DirectRatios
    IN  IF i <= 26 THEN Header[i].name
        ELSE IF i <= 26 + 6 * n THEN LampBlocks[((i - 27) \div n) + 1].name
        ELSE IF i <= b THEN "Direct ratios for room indices k = 0.6 ... 5"
        ELSE IF i <= b + Len(l.angles_c) THEN "Angles C"
        ELSE IF i <= b + Len(l.angles_c) + Len(l.angles_g) THEN "Angles G"
        ELSE "Luminous intensity distribution"

\* The stream is the first k lines of a well-formed file of more lines.
Truncated ==
    /\ Decoded
    /\ orig \in ValidFiles
    /\ Len(stream.lines) < Len(orig.lines)
    /\ stream = Cut(orig, Len(stream.lines))

\* C4: decoding the first k lines of a well-formed file of L > k lines
\* returns failure with the truncation error that names the field of line
\* k + 1, having consumed k lines; it never returns success.
C4_Truncation ==
    Truncated =>
        /\ ~res.ret
        /\ res.err = ErrReading(LineName(Ref.ldt, Len(stream.lines) + 1), InName)
        /\ res.consumed = Len(stream.lines)
        /\ res.warn = ""

\* A file lost its last line, an intensity value, and the decode stopped
\* there with the angles and the earlier intensities read.
C4_Witness ==
    /\ Truncated
    /\ Len(stream.lines) = Len(orig.lines) - 1
    /\ res.err = ErrReading("Luminous intensity distribution", InName)
    /\ Len(res.ldt.angles_c) = 4
    /\ ~res.ret

---------------------------------------------------------------------------
(* C5: the Record after a fatal failure. *)

\* C5 as stated: whenever load_ldt returns failure, the caller's Record
\* holds none of the values or sizes read before the failure: it is the
\* default Record the caller passed in.
C5_NoPartialRecord ==
    (op = "load" /\ ~res.ret) => res.ldt = DefaultLight

---------------------------------------------------------------------------
(* C6: a numeric line that does not convert. *)

IntegerLine(l, j) == LineKind(l, j) \in {"u32", "int"}

\* The lines whose value sizes what is read later: the symmetry code, the
\* plane count, the sample count and the lamp-set count.
SizingLines == {3, 4, 6, 26}

\* The Record l with the member read from line j at its zero default.
ZeroField(l, j) ==
    LET n == Len(l.lamp_data)
    IN  IF j <= 26 THEN [l EXCEPT ![Header[j].field] = U32(0)]
        ELSE LET d == LampBlocks[((j - 27) \div n) + 1]
                 k == ((j - 27) % n) + 1
             IN  [l EXCEPT !.lamp_data[k][d.field] =
                               IF d.kind = "int" THEN 0 ELSE U32(0)]

\* The stream is the well-formed file orig with integer line j replaced by
\* a text std::stoi does not convert.
Replaced(j) ==
    /\ Decoded
    /\ j \in 1..Len(orig.lines)
    /\ Len(stream.lines) = Len(orig.lines)
    /\ stream.lines[j] \in NotNumeric
    /\ stream = Put(orig, j, stream.lines[j])
    /\ orig \in ValidFiles
    /\ IntegerLine(Ref.ldt, j)

\* The non-fatal outcome: success, the warning, the member of line j zero
\* and the rest of the Record as decoded from orig.
Degraded(j) ==
    /\ res.ret
    /\ res.warn = SomeValues
    /\ res.caught = 1
    /\ res.ldt = ZeroField(Ref.ldt, j)

\* C6 as stated: replacing any one integer line of a well-formed file with
\* a non-numeric text gives success with the warning, that member 0 and
\* every other member and array as in the decode of the original file.
C6_Original ==
    \A j \in 1..Len(stream.lines) : Replaced(j) => Degraded(j)

\* C6 as amended: the law holds for every integer line other than the
\* symmetry code, the plane count, the sample count and the lamp-set
\* count.  Replacing one of those four still raises the warning and leaves
\* that member 0, and what is read afterwards is sized from the 0.
C6_Amended ==
    \A j \in 1..Len(stream.lines) :
        Replaced(j) =>
            /\ j \notin SizingLines => Degraded(j)
            /\ j \in SizingLines =>
                  /\ res.warn = SomeValues
                  /\ res.ldt[Header[j].field] = U32(0)
                  /\ res.ret => Len(res.ldt.luminous_intensity_distribution)
                                   = LidSize(res.ldt)

\* The length line of a file with four planes was replaced by a text that
\* is no number, and the decode went on to the end.
C6_Witness ==
    /\ Replaced(13)
    /\ stream.lines[13] = <<"x">>
    /\ res.ret
    /\ res.warn = SomeValues
    /\ res.ldt.length_luminaire = U32(0)
    /\ res.ldt.width_luminaire = U32(24)
    /\ Len(res.ldt.angles_c) = 4

---------------------------------------------------------------------------
(* C7: decode, encode, decode. *)

\* The destination of the last write_ldt call opened and stored the whole
\* text.
TookAll ==
    /\ wres.opens
    /\ wres.regular
    /\ wres.room >= TextSize(Serialize(res.ldt))

---------------------------------------------------------------------------
(* C8: sizes and lines consumed after a successful decode. *)

\* The result r of a load_ldt call has every section sized from the counts
\* it read and has consumed one line per scalar and per element.
Sized(r) ==
    LET l == r.ldt
        planes == ToSize(l.mc2) - ToSize(l.mc1) + 1
    IN  /\ Len(l.lamp_data) = ToSize(l.n)
        /\ Len(l.angles_c) = ToSize(l.mc)
        /\ Len(l.angles_g) = ToSize(l.ng)
        /\ Len(l.luminous_intensity_distribution) = planes * ToSize(l.ng)
        /\ l.lsym = U32(1) =>
              Len(l.luminous_intensity_distribution) = ToSize(l.ng)
        /\ r.consumed = 26 + 6 * ToSize(l.n) + DirectRatios + ToSize(l.mc)
                           + ToSize(l.ng) + planes * ToSize(l.ng)

\* C8: after every load_ldt call that returns success, of a file as given
\* or of a file write_ldt produced, the lamp sets, the two angle arrays and
\* the intensity table have exactly the sizes the counts give, and exactly
\* 26 + 6 n + 10 + mc + ng + (mc2 - mc1 + 1) ng lines were consumed.
C8_ExactSizes ==
    /\ (op = "load" /\ res.ret) => Sized(res)
    /\ (op = "reload" /\ res2.ret) => Sized(res2)

\* A file with symmetry code 1, four planes, one sample and one lamp set
\* was decoded: one stored plane, 48 lines.
C8_Witness ==
    /\ op = "load"
    /\ res.ret
    /\ res.ldt.lsym = U32(1)
    /\ res.ldt.mc = U32(4)
    /\ Len(res.ldt.lamp_data) = 1
    /\ Len(res.ldt.luminous_intensity_distribution) = 1
    /\ res.consumed = 48

---------------------------------------------------------------------------
(* C9: write_ldt trusts the Record. *)

\* The text of the member decoded from line i, for a file laid out as the
\* Record l is stored: the reader's order of lines.
DecodeOrderLine(l, i) ==
    LET n == Len(l.lamp_data)
        a == 26 + 6 * n
        b == a + DirectRatios
        c == b + Len(l.angles_c)
        d == c + Len(l.angles_g)
    IN  IF i <= 26 THEN Str(Header[i].kind, l[Header[i].field])
        ELSE IF i <= a THEN
            Str(LampBlocks[((i - 27) \div n) + 1].kind,
                l.lamp_data[((i - 27) % n) + 1]
                    [LampBlocks[((i - 27) \div n) + 1].field])
        ELSE IF i <= b THEN StrFpn(l.dr[i - a])
        ELSE IF i <= c THEN StrFpn(l.angles_c[i - b])
        ELSE IF i <= d THEN StrFpn(l.angles_g[i - c])
        ELSE StrFpn(l.luminous_intensity_distribution[i - d])

WrittenLength(l) ==
    26 + 6 * Len(l.lamp_data) + DirectRatios + Len(l.angles_c)
       + Len(l.angles_g) + Len(l.luminous_intensity_distribution)

---------------------------------------------------------------------------
(* C10: the two strings across calls. *)

\* C10 as stated: with the same strings passed to every call, after a call
\* that returns success the warning is non-empty exactly when a conversion
\* failed during that call, and the error string is empty unless the call
\* returned failure.
C10_PerCall ==
    (op = "load" /\ res.ret) =>
        /\ res.warn # "" <=> res.caught > 0
        /\ res.err = ""

=============================================================================
